------------------------------ MODULE Spec2Model ------------------------------
(***************************************************************************)
(* Model of MainDialog (5.multiturn-prompts-bot/dialogs/mainDialog):       *)
(* the turn handler onTurn, the who_are_you and hello_user waterfalls and  *)
(* the three prompts they use.  One action of the model is one whole turn. *)
(*                                                                         *)
(* JavaScript values are records [t, n, s]: t is the type tag, n the       *)
(* number, s the characters of a string (a sequence of one-character       *)
(* strings, so that trim, toLowerCase and number parsing are computed).    *)
(***************************************************************************)
EXTENDS Integers, Sequences, FiniteSets

VARIABLES profile, stack, history

vars == <<profile, stack, history>>

(* ------------------------------ bounds --------------------------------- *)

\* numeric replies range over -MaxNum .. MaxNum
MaxNum == 1

(* --------------------------- program constants ------------------------- *)

WHO_ARE_YOU == "who_are_you"
HELLO_USER == "hello_user"
NAME_PROMPT == "name_prompt"
CONFIRM_PROMPT == "confirm_prompt"
AGE_PROMPT == "age_prompt"

(* --------------------------- JavaScript values ------------------------- *)

Undef == [t |-> "undefined", n |-> 0, s |-> <<>>]
Num(n) == [t |-> "number", n |-> n, s |-> <<>>]
Str(s) == [t |-> "string", n |-> 0, s |-> s]
\* a FoundChoice object: s is its .value, n its .index
Choice(s, i) == [t |-> "choice", n |-> i, s |-> s]

\* ToBoolean: undefined, 0 and '' are falsy, objects are truthy
Truthy(v) ==
    CASE v.t = "undefined" -> FALSE
      [] v.t = "number" -> v.n # 0
      [] v.t = "string" -> v.s # <<>>
      [] OTHER -> TRUE

\* the operator !== of two values
StrictNotEqual(v, w) == v # w

\* the operator < against a number: undefined converts to NaN, and every
\* comparison with NaN is false
LessThan(v, k) == v.t = "number" /\ v.n < k

(* ------------------------------- strings ------------------------------- *)

UpperChars == <<"A","B","C","D","E","F","G","H","I","J","K","L","M",
                "N","O","P","Q","R","S","T","U","V","W","X","Y","Z">>
LowerChars == <<"a","b","c","d","e","f","g","h","i","j","k","l","m",
                "n","o","p","q","r","s","t","u","v","w","x","y","z">>
DigitChars == <<"0","1","2","3","4","5","6","7","8","9">>
WhiteSpace == {" ", "\t", "\n"}

ToLowerChar(c) ==
    IF \E i \in 1..26 : UpperChars[i] = c
    THEN LowerChars[CHOOSE i \in 1..26 : UpperChars[i] = c]
    ELSE c

\* String.prototype.toLowerCase
ToLowerCase(s) == [i \in 1..Len(s) |-> ToLowerChar(s[i])]

\* String.prototype.trim
Trim(s) ==
    LET keep == {i \in 1..Len(s) : s[i] \notin WhiteSpace}
    IN IF keep = {} THEN <<>>
       ELSE LET lo == CHOOSE i \in keep : \A j \in keep : i <= j
                hi == CHOOSE i \in keep : \A j \in keep : j <= i
            IN SubSeq(s, lo, hi)

IsDigit(c) == \E i \in 1..10 : DigitChars[i] = c
DigitValue(c) == (CHOOSE i \in 1..10 : DigitChars[i] = c) - 1

RECURSIVE DigitsValue(_)
DigitsValue(s) ==
    IF s = <<>> THEN 0
    ELSE 10 * DigitsValue(SubSeq(s, 1, Len(s) - 1)) + DigitValue(s[Len(s)])

RECURSIVE DigitsOf(_)
DigitsOf(n) ==
    IF n < 10 THEN <<DigitChars[n + 1]>>
    ELSE DigitsOf(n \div 10) \o <<DigitChars[(n % 10) + 1]>>

\* String(n) of an integer n
NumberToString(n) == IF n < 0 THEN <<"-">> \o DigitsOf(0 - n) ELSE DigitsOf(n)

\* the string a template literal ${ v } inserts for a value
Interpolate(v) ==
    CASE v.t = "undefined" -> <<"u","n","d","e","f","i","n","e","d">>
      [] v.t = "number" -> NumberToString(v.n)
      [] OTHER -> v.s

(* ------------------------------- inputs -------------------------------- *)

T_empty == <<>>
T_hi == <<"h","i">>
T_Ada == <<"A","d","a">>
T_cancel == <<"c","a","n","c","e","l">>
T_Cancel == <<" ","C","a","n","c","e","L"," ">>
T_yes == <<"y","e","s">>
T_no == <<"n","o">>

NumberTexts == {NumberToString(n) : n \in (0 - MaxNum)..MaxNum}

Texts == {T_empty, T_hi, T_Ada, T_cancel, T_Cancel, T_yes, T_no} \cup NumberTexts

MessageActivities ==
    {[type |-> "message", text |-> Str(t), member |-> ""] : t \in Texts}
    \cup {[type |-> "message", text |-> Undef, member |-> ""]}

\* member is membersAdded[0].name; it is NoMembersAdded in an activity
\* that has no membersAdded (a message, or an update that removes members)
NoMembersAdded == ""

UpdateActivities ==
    {[type |-> "conversationUpdate", text |-> Undef, member |-> m] :
        m \in {"Bot", "User", NoMembersAdded}}

OtherActivities == {[type |-> "typing", text |-> Undef, member |-> ""]}

(* ------------------------------ messages ------------------------------- *)


\* a sent message: the template text, and the strings inserted for
\* ${ user.name } and for ${ user.age } or ${ step.result }
Msg(fmt) == [fmt |-> fmt, name |-> <<>>, age |-> <<>>]
MsgRemember(age) ==
    [fmt |-> "I will remember that you are {age} years old.",
     name |-> <<>>, age |-> age]
MsgNameAge(name, age) ==
    [fmt |-> "Your name is {name} and you are {age} years old.",
     name |-> name, age |-> age]
MsgNameOnly(name) ==
    [fmt |-> "Your name is {name} and you did not share your age.",
     name |-> name, age |-> <<>>]

(* ------------------- turn context and dialog context ------------------- *)

\* The state a turn works on: the user profile, the dialog stack, and what
\* the turn has done so far (messages sent, the responded flag, the
\* waterfall steps run, the dialogs begun from onTurn, the stores saved).
NewContext(p, st) ==
    [profile |-> p, stack |-> st, sent |-> <<>>, responded |-> FALSE,
     steps |-> <<>>, begun |-> <<>>, saves |-> <<>>]

\* turnContext.sendActivity of a message
sendActivity(c, m) == [c EXCEPT !.sent = Append(@, m), !.responded = TRUE]

Instance(id, prompt, retry) ==
    [id |-> id, stepIndex |-> 0, prompt |-> prompt, retryPrompt |-> retry]

IsPrompt(id) == id \in {NAME_PROMPT, CONFIRM_PROMPT, AGE_PROMPT}

\* dc.activeDialog
activeDialog(c) == IF c.stack = <<>> THEN Undef ELSE Str(<<c.stack[Len(c.stack)].id>>)

Top(c) == c.stack[Len(c.stack)]

\* dc.prompt: pushes the prompt and sends its question
prompt(c, id, text, retry) ==
    sendActivity([c EXCEPT !.stack = Append(@, Instance(id, text, retry))],
                 Msg(text))

\* cancelAll that leaves the stack as it is
cancelAll_keep(c) == c

\* dc.cancelAll
cancelAll(c) == [c EXCEPT !.stack = <<>>]

\* who_are_you with its second and third step exchanged
WaterfallSteps_swapped(id) ==
    IF id = WHO_ARE_YOU
    THEN <<"promptForName", "promptForAge", "confirmAgePrompt", "captureAge">>
    ELSE <<"displayProfile">>

WaterfallSteps(id) ==
    IF id = WHO_ARE_YOU
    THEN <<"promptForName", "confirmAgePrompt", "promptForAge", "captureAge">>
    ELSE <<"displayProfile">>

RECURSIVE runStep(_, _, _)

\* dc.end: pops the active dialog and resumes its parent, a waterfall,
\* at its next step with the result
dcEnd(c, result) ==
    LET c1 == [c EXCEPT !.stack = SubSeq(@, 1, Len(@) - 1)]
    IN IF c1.stack = <<>> THEN c1
       ELSE runStep(c1, Top(c1).stepIndex + 1, result)

(* ------------------------------ the steps ------------------------------ *)

promptForName(c) == prompt(c, NAME_PROMPT, "What is your name, human?", "")

\* confirmAgePrompt that does not store the name
confirmAgePrompt_noStore(c, result) ==
    prompt(c, CONFIRM_PROMPT, "Do you want to give your age?", "")

confirmAgePrompt(c, result) ==
    LET user == [c.profile EXCEPT !.name = result]
    IN prompt([c EXCEPT !.profile = user], CONFIRM_PROMPT,
              "Do you want to give your age?", "")

\* promptForAge that asks for the age whatever the choice was
promptForAge_always(c, result) ==
    prompt(c, AGE_PROMPT, "What is your age?",
           "Sorry, please specify your age as a positive number or say cancel.")

promptForAge(c, result) ==
    IF Truthy(result) /\ result.s = T_yes
    THEN prompt(c, AGE_PROMPT, "What is your age?",
                "Sorry, please specify your age as a positive number or say cancel.")
    ELSE runStep(c, Top(c).stepIndex + 1, Num(-1))

\* captureAge that does not know the sentinel
captureAge_noSentinel(c, result) ==
    dcEnd(sendActivity([c EXCEPT !.profile.age = result],
                       MsgRemember(Interpolate(result))), Undef)

captureAge(c, result) ==
    LET c1 == IF StrictNotEqual(result, Num(-1))
              THEN sendActivity([c EXCEPT !.profile.age = result],
                                MsgRemember(Interpolate(result)))
              ELSE sendActivity(c, Msg("No age given."))
    IN dcEnd(c1, Undef)

\* displayProfile that drops the age once it has shown the profile
displayProfile_forget(c) ==
    LET user == c.profile
        c1 == IF Truthy(user.age)
              THEN sendActivity(c, MsgNameAge(Interpolate(user.name),
                                              Interpolate(user.age)))
              ELSE sendActivity(c, MsgNameOnly(Interpolate(user.name)))
    IN dcEnd([c1 EXCEPT !.profile.age = Undef], Undef)

displayProfile(c) ==
    LET user == c.profile
        c1 == IF Truthy(user.age)
              THEN sendActivity(c, MsgNameAge(Interpolate(user.name),
                                              Interpolate(user.age)))
              ELSE sendActivity(c, MsgNameOnly(Interpolate(user.name)))
    IN dcEnd(c1, Undef)

\* WaterfallDialog: run step number index (from 0) of the active waterfall
runStep(c, index, result) ==
    LET names == WaterfallSteps(Top(c).id)
    IN IF index < Len(names)
       THEN LET name == names[index + 1]
                c1 == [c EXCEPT !.stack[Len(c.stack)].stepIndex = index,
                                !.steps = Append(@, [step |-> name,
                                                     result |-> result])]
            IN CASE name = "promptForName" -> promptForName(c1)
                 [] name = "confirmAgePrompt" -> confirmAgePrompt(c1, result)
                 [] name = "promptForAge" -> promptForAge(c1, result)
                 [] name = "captureAge" -> captureAge(c1, result)
                 [] OTHER -> displayProfile(c1)
       ELSE dcEnd(c, result)

\* dc.begin of a waterfall
dcBegin(c, id) ==
    runStep([c EXCEPT !.stack = Append(@, Instance(id, "", "")),
                      !.begun = Append(@, id)], 0, Undef)

(* ------------------------------ the prompts ---------------------------- *)

\* A pending prompt recognizes a value in the turn's activity.  A prompt
\* constructed without a validator ends exactly when a value was
\* recognized.  A prompt constructed with a validator hands it the
\* recognition result, succeeded or not, and ends exactly when the
\* validator calls step.end; an unrecognized value is undefined.

NotRecognized == [succeeded |-> FALSE, value |-> Undef]
Recognized(v) == [succeeded |-> TRUE, value |-> v]

\* TextPrompt: any non-empty text
RecognizeText(activity) ==
    IF activity.text.t = "string" /\ activity.text.s # <<>>
    THEN Recognized(activity.text) ELSE NotRecognized

\* ChoicePrompt over ['yes','no']: the text names one of the choices
RecognizeChoice(activity) ==
    LET u == ToLowerCase(Trim(activity.text.s))
    IN CASE u = T_yes -> Recognized(Choice(T_yes, 0))
         [] u = T_no -> Recognized(Choice(T_no, 1))
         [] OTHER -> NotRecognized

\* NumberPrompt: the text is an integer numeral, with or without a sign
IsNumeral(s) == s # <<>> /\ \A i \in 1..Len(s) : IsDigit(s[i])
RecognizeNumber(activity) ==
    LET u == Trim(activity.text.s)
    IN IF IsNumeral(u) THEN Recognized(Num(DigitsValue(u)))
       ELSE IF u # <<>> /\ u[1] = "-" /\ IsNumeral(Tail(u))
            THEN Recognized(Num(0 - DigitsValue(Tail(u))))
            ELSE NotRecognized

\* a validator that never calls step.end
ageValidator_neverEnds(c, recognized) ==
    [ctx |-> sendActivity(c, Msg("Your age can't be less than zero.")),
     end |-> FALSE, result |-> Undef]

\* a validator that accepts every value
ageValidator_acceptAll(c, recognized) ==
    [ctx |-> c, end |-> TRUE, result |-> recognized.value]

\* the validator given to the NumberPrompt: the turn context after it, and
\* whether it called step.end and with what
ageValidator(c, recognized) ==
    IF LessThan(recognized.value, 0)
    THEN [ctx |-> sendActivity(c, Msg("Your age can't be less than zero.")),
          end |-> FALSE, result |-> Undef]
    ELSE [ctx |-> c, end |-> TRUE, result |-> recognized.value]

\* a prompt without validator ends on a recognized value
noValidator(c, recognized) ==
    [ctx |-> c, end |-> recognized.succeeded, result |-> recognized.value]

\* a pending prompt gets the turn's activity: it ends with a result, or
\* asks again unless the turn has already responded
promptContinue(c, activity) ==
    LET inst == Top(c)
        recognized == CASE inst.id = NAME_PROMPT -> RecognizeText(activity)
                        [] inst.id = CONFIRM_PROMPT -> RecognizeChoice(activity)
                        [] OTHER -> RecognizeNumber(activity)
        v == IF inst.id = AGE_PROMPT THEN ageValidator(c, recognized)
             ELSE noValidator(c, recognized)
    IN IF v.end THEN dcEnd(v.ctx, v.result)
       ELSE IF ~ v.ctx.responded
            THEN sendActivity(v.ctx, Msg(IF inst.retryPrompt # ""
                                         THEN inst.retryPrompt
                                         ELSE inst.prompt))
            ELSE v.ctx

\* dc.continue
dcContinue(c, activity) ==
    IF c.stack = <<>> THEN c
    ELSE IF IsPrompt(Top(c).id) THEN promptContinue(c, activity)
    ELSE runStep(c, Top(c).stepIndex + 1, activity.text)

(* ------------------------------- onTurn -------------------------------- *)

\* the utterance without trim()
utterance_noTrim(activity) ==
    ToLowerCase(IF Truthy(activity.text) THEN activity.text.s ELSE <<>>)

\* (turnContext.activity.text || '').trim().toLowerCase()
utterance(activity) ==
    ToLowerCase(Trim(IF Truthy(activity.text) THEN activity.text.s ELSE <<>>))

description ==
    <<"I am a bot that demonstrates the TextPrompt and NumberPrompt classes",
      "to collect your name and age, then store those values in UserState for later use.",
      "Say anything to continue.">>

\* Array.prototype.join
RECURSIVE join(_, _)
join(parts, sep) ==
    IF Len(parts) = 0 THEN ""
    ELSE IF Len(parts) = 1 THEN parts[1]
    ELSE parts[1] \o sep \o join(Tail(parts), sep)

saveChanges(c, store) ==
    [c EXCEPT !.saves = Append(@, [store |-> store, sent |-> Len(c.sent)])]

\* onTurn with the two dialogs exchanged
onTurnMessage_swapped(c, activity) ==
    LET c1 == IF utterance(activity) = T_cancel
              THEN IF Truthy(activeDialog(c))
                   THEN sendActivity(cancelAll(c), Msg("Ok... canceled."))
                   ELSE sendActivity(c, Msg("Nothing to cancel."))
              ELSE c
        c2 == dcContinue(c1, activity)
    IN IF ~ c2.responded
       THEN IF Truthy(c2.profile.name)
            THEN dcBegin(c2, WHO_ARE_YOU)
            ELSE dcBegin(c2, HELLO_USER)
       ELSE c2

\* onTurn that chooses the dialog by user.age
onTurnMessage_byAge(c, activity) ==
    LET c1 == IF utterance(activity) = T_cancel
              THEN IF Truthy(activeDialog(c))
                   THEN sendActivity(cancelAll(c), Msg("Ok... canceled."))
                   ELSE sendActivity(c, Msg("Nothing to cancel."))
              ELSE c
        c2 == dcContinue(c1, activity)
    IN IF ~ c2.responded
       THEN IF Truthy(c2.profile.age)
            THEN dcBegin(c2, HELLO_USER)
            ELSE dcBegin(c2, WHO_ARE_YOU)
       ELSE c2

\* onTurn that begins a dialog whether or not the turn has responded
onTurnMessage_alwaysBegin(c, activity) ==
    LET c1 == IF utterance(activity) = T_cancel
              THEN IF Truthy(activeDialog(c))
                   THEN sendActivity(cancelAll(c), Msg("Ok... canceled."))
                   ELSE sendActivity(c, Msg("Nothing to cancel."))
              ELSE c
        c2 == dcContinue(c1, activity)
    IN IF Truthy(c2.profile.name)
       THEN dcBegin(c2, HELLO_USER)
       ELSE dcBegin(c2, WHO_ARE_YOU)

\* onTurn that begins a dialog when none is active after dc.continue
onTurnMessage_whenIdle(c, activity) ==
    LET c1 == IF utterance(activity) = T_cancel
              THEN IF Truthy(activeDialog(c))
                   THEN sendActivity(cancelAll(c), Msg("Ok... canceled."))
                   ELSE sendActivity(c, Msg("Nothing to cancel."))
              ELSE c
        c2 == dcContinue(c1, activity)
    IN IF ~ Truthy(activeDialog(c2))
       THEN IF Truthy(c2.profile.name)
            THEN dcBegin(c2, HELLO_USER)
            ELSE dcBegin(c2, WHO_ARE_YOU)
       ELSE c2

\* onTurn whose cancel also forgets the profile
onTurnMessage_cancelForgets(c, activity) ==
    LET c1 == IF utterance(activity) = T_cancel
              THEN IF Truthy(activeDialog(c))
                   THEN sendActivity([cancelAll(c) EXCEPT
                                          !.profile = [name |-> Undef,
                                                       age |-> Undef]],
                                     Msg("Ok... canceled."))
                   ELSE sendActivity(c, Msg("Nothing to cancel."))
              ELSE c
        c2 == dcContinue(c1, activity)
    IN IF ~ c2.responded
       THEN IF Truthy(c2.profile.name)
            THEN dcBegin(c2, HELLO_USER)
            ELSE dcBegin(c2, WHO_ARE_YOU)
       ELSE c2

onTurnMessage(c, activity) ==
    LET c1 == IF utterance(activity) = T_cancel
              THEN IF Truthy(activeDialog(c))
                   THEN sendActivity(cancelAll(c), Msg("Ok... canceled."))
                   ELSE sendActivity(c, Msg("Nothing to cancel."))
              ELSE c
        c2 == dcContinue(c1, activity)
    IN IF ~ c2.responded
       THEN IF Truthy(c2.profile.name)
            THEN dcBegin(c2, HELLO_USER)
            ELSE dcBegin(c2, WHO_ARE_YOU)
       ELSE c2

\* onTurn that describes the bot to the bot and to nobody else
onTurn_onlyBot(c, activity) ==
    LET c1 == IF activity.type = "message" THEN onTurnMessage(c, activity)
              ELSE IF activity.type = "conversationUpdate"
                      /\ activity.member = "Bot"
                   THEN sendActivity(c, Msg(join(description, " ")))
                   ELSE c
    IN IF activity.type = "conversationUpdate"
          /\ activity.member = NoMembersAdded
       THEN c
       ELSE saveChanges(saveChanges(c1, "userState"), "conversationState")

\* Reading membersAdded[0] of an update without membersAdded throws a
\* TypeError: the handler stops there, and nothing after it is executed.
onTurn(c, activity) ==
    LET c1 == IF activity.type = "message" THEN onTurnMessage(c, activity)
              ELSE IF activity.type = "conversationUpdate"
                      /\ activity.member # "Bot"
                   THEN sendActivity(c, Msg(join(description, " ")))
                   ELSE c
    IN IF activity.type = "conversationUpdate"
          /\ activity.member = NoMembersAdded
       THEN c
       ELSE saveChanges(saveChanges(c1, "userState"), "conversationState")

(* --------------------------- the state machine ------------------------- *)

\* what the log keeps of a turn
TurnRecord(activity, c0, c) ==
    [activity |-> activity, preProfile |-> c0.profile, preStack |-> c0.stack,
     sent |-> c.sent, steps |-> c.steps, begun |-> c.begun, saves |-> c.saves]

\* the log keeps the last three turns, the latest last
Log(h, r) == <<h[2], h[3], r>>

EmptyProfile == [name |-> Undef, age |-> Undef]

\* the log entry of a turn that has not happened
NoTurn ==
    [activity |-> [type |-> "none", text |-> Undef, member |-> ""],
     preProfile |-> EmptyProfile, preStack |-> <<>>,
     sent |-> <<>>, steps |-> <<>>, begun |-> <<>>, saves |-> <<>>]

Init ==
    /\ profile = EmptyProfile
    /\ stack = <<>>
    /\ history = <<NoTurn, NoTurn, NoTurn>>

\* one turn: c is the turn context when onTurn is done
Turn(activity) ==
    LET c0 == NewContext(profile, stack)
    IN \E c \in {onTurn(c0, activity)} :
         /\ profile' = c.profile
         /\ stack' = c.stack
         /\ history' = Log(history, TurnRecord(activity, c0, c))

MessageTurn == \E a \in MessageActivities : Turn(a)
ConversationUpdateTurn == \E a \in UpdateActivities : Turn(a)
OtherTurn == \E a \in OtherActivities : Turn(a)

Next == MessageTurn \/ ConversationUpdateTurn \/ OtherTurn

Spec == Init /\ [][Next]_vars

TypeOK ==
    /\ profile.name.t \in {"undefined", "string"}
    /\ Len(stack) <= 2
    /\ Len(history) = 3

(* ------------------------- observing the turns ------------------------- *)

Last == history[3]
Prev == history[2]
Prev2 == history[1]

IsMessage(r) == r.activity.type = "message"

\* the texts of the inputs that are a cancel utterance
CancelTexts == {Str(T_cancel), Str(T_Cancel)}
IsCancelTurn(r) == IsMessage(r) /\ r.activity.text \in CancelTexts
IsPlainTurn(r) == IsMessage(r) /\ r.activity.text \notin CancelTexts

Idle(r) == r.preStack = <<>>
PendingPrompt(r) ==
    IF r.preStack = <<>> THEN "" ELSE r.preStack[Len(r.preStack)].id

\* the dialog stack while the name prompt of who_are_you is pending
AtNamePrompt ==
    <<Instance(WHO_ARE_YOU, "", ""),
      Instance(NAME_PROMPT, "What is your name, human?", "")>>

(* -------------------------------- C1 ----------------------------------- *)

\* C1: a message turn that is not a cancel, taken with Profile.name unset
\* and no flow active, begins who_are_you and nothing else: it sends
\* "What is your name, human?" and ends suspended at the name prompt.
C1_BeginsOnboarding ==
    (IsPlainTurn(Last) /\ Idle(Last) /\ Last.preProfile.name = Undef)
    => /\ Last.begun = <<WHO_ARE_YOU>>
       /\ Last.sent = <<Msg("What is your name, human?")>>
       /\ Last.steps = <<[step |-> "promptForName", result |-> Undef]>>
       /\ stack = AtNamePrompt
       /\ profile = Last.preProfile

C1_Witness ==
    /\ IsPlainTurn(Last) /\ Idle(Last) /\ Last.preProfile.name = Undef
    /\ Last.activity.text = Str(T_hi)
    /\ stack = AtNamePrompt

(* -------------------------------- C2 ----------------------------------- *)

\* C2: a turn taken with Profile.name set never begins who_are_you; the
\* flow such a turn begins, if it begins one, is hello_user.
C2_NeverOnboardingAgain ==
    (Last.preProfile.name # Undef)
    => \A i \in 1..Len(Last.begun) : Last.begun[i] = HELLO_USER

\* a turn that began hello_user with the name stored and the age not
C2_Witness ==
    /\ Last.preProfile.name # Undef
    /\ Last.preProfile.age = Undef
    /\ IsPlainTurn(Last)
    /\ Last.begun = <<HELLO_USER>>

(* -------------------------------- C3 ----------------------------------- *)

\* C3: a cancel turn sends exactly one message, "Ok... canceled." when a
\* flow was active and "Nothing to cancel." when none was, begins no flow,
\* runs no step, and ends with the dialog stack empty.
C3_CancelTurn ==
    IsCancelTurn(Last)
    => /\ Last.sent = IF Idle(Last) THEN <<Msg("Nothing to cancel.")>>
                      ELSE <<Msg("Ok... canceled.")>>
       /\ Last.begun = <<>>
       /\ stack = <<>>

\* " CanceL " while the age-choice prompt was pending
C3_Witness ==
    /\ IsCancelTurn(Last)
    /\ Last.activity.text = Str(T_Cancel)
    /\ PendingPrompt(Last) = CONFIRM_PROMPT
    /\ stack = <<>>

(* -------------------------------- C4 ----------------------------------- *)

\* C4: no step of a flow runs in a cancel turn, and Profile.name is never
\* a cancel utterance.
C4_CancelNeverInput ==
    /\ IsCancelTurn(Last) => Last.steps = <<>>
    /\ profile.name \notin CancelTexts

\* a cancel turn taken while the name prompt was pending
C4_Witness ==
    /\ IsCancelTurn(Last)
    /\ PendingPrompt(Last) = NAME_PROMPT
    /\ Last.steps = <<>>
    /\ profile.name = Undef

(* -------------------------------- C5 ----------------------------------- *)

\* C5: when the age-choice prompt completes with "no", the same turn
\* sends "No age given." and nothing else (no number prompt), leaves
\* Profile.age unset and the profile unchanged, and ends the flow.
C5_NoSkipsAge ==
    (IsMessage(Last) /\ PendingPrompt(Last) = CONFIRM_PROMPT
        /\ Last.activity.text = Str(T_no))
    => /\ Last.sent = <<Msg("No age given.")>>
       /\ Last.steps = <<[step |-> "promptForAge", result |-> Choice(T_no, 1)],
                         [step |-> "captureAge", result |-> Num(-1)]>>
       /\ profile.age = Undef
       /\ profile = Last.preProfile
       /\ stack = <<>>

C5_Witness ==
    /\ IsMessage(Last) /\ PendingPrompt(Last) = CONFIRM_PROMPT
    /\ Last.activity.text = Str(T_no)
    /\ Last.sent = <<Msg("No age given.")>>
    /\ stack = <<>>

(* -------------------------------- C6 ----------------------------------- *)

NegativeTexts == {Str(NumberToString(0 - n)) : n \in 1..MaxNum}

NegativeAtAgePrompt(r) ==
    IsMessage(r) /\ PendingPrompt(r) = AGE_PROMPT
    /\ r.activity.text \in NegativeTexts

\* C6: a negative number at the age prompt gives exactly one message,
\* "Your age can't be less than zero.", leaves the prompt pending and the
\* profile unchanged, runs no step and begins no flow; a non-negative
\* number in the next turn completes the prompt with that number.
C6_NegativeAgeRejected ==
    /\ NegativeAtAgePrompt(Last)
       => /\ Last.sent = <<Msg("Your age can't be less than zero.")>>
          /\ stack = Last.preStack
          /\ profile = Last.preProfile
          /\ Last.steps = <<>>
          /\ Last.begun = <<>>
    /\ \A n \in 0..MaxNum :
         (NegativeAtAgePrompt(Prev) /\ IsMessage(Last)
             /\ Last.activity.text = Str(NumberToString(n)))
         => /\ Last.preStack = Prev.preStack
            /\ Last.steps = <<[step |-> "captureAge", result |-> Num(n)]>>
            /\ stack = <<>>

\* two negative replies in a row, then 0
C6_Witness ==
    /\ NegativeAtAgePrompt(Prev2)
    /\ NegativeAtAgePrompt(Prev)
    /\ IsMessage(Last) /\ Last.activity.text = Str(NumberToString(0))
    /\ Last.steps = <<[step |-> "captureAge", result |-> Num(0)]>>
    /\ stack = <<>>

(* -------------------------------- C7 ----------------------------------- *)

\* the three turns [any text but cancel, n, "no"] from an empty profile
\* with no flow active, n being any text
C7_Scenario ==
    /\ IsPlainTurn(Prev2) /\ Idle(Prev2) /\ Prev2.preProfile = EmptyProfile
    /\ IsMessage(Prev) /\ Prev.activity.text.t = "string"
    /\ IsMessage(Last) /\ Last.activity.text = Str(T_no)

C7_Outcome ==
    /\ Prev2.sent = <<Msg("What is your name, human?")>>
    /\ Prev.sent = <<Msg("Do you want to give your age?")>>
    /\ Last.sent = <<Msg("No age given.")>>
    /\ profile = [name |-> Prev.activity.text, age |-> Undef]
    /\ stack = <<>>

\* C7 as stated: for every n the three turns give the three responses and
\* leave the profile { name: n } with no flow active.
C7_EveryText == C7_Scenario => C7_Outcome

\* C7 amended: the same for every n that is not empty and is not a cancel
\* utterance.
C7_EndToEnd ==
    (C7_Scenario /\ Prev.activity.text # Str(T_empty)
        /\ Prev.activity.text \notin CancelTexts)
    => C7_Outcome

C7_Witness ==
    /\ C7_Scenario
    /\ Prev2.activity.text = Str(T_hi)
    /\ Prev.activity.text = Str(T_Ada)
    /\ profile = [name |-> Str(T_Ada), age |-> Undef]
    /\ stack = <<>>

(* -------------------------------- C8 ----------------------------------- *)

\* C8: hello_user sends exactly one message, "Your name is {name} and you
\* are {age} years old." when the profile it reads has an age and "Your
\* name is {name} and you did not share your age." when it has none; it
\* runs its one step, prompts for nothing and leaves no flow active.
C8_GreetingShowsProfile ==
    (Last.begun = <<HELLO_USER>>)
    => /\ Last.sent =
            IF Last.preProfile.age # Undef
            THEN <<MsgNameAge(Last.preProfile.name.s,
                              NumberToString(Last.preProfile.age.n))>>
            ELSE <<MsgNameOnly(Last.preProfile.name.s)>>
       /\ Last.steps = <<[step |-> "displayProfile", result |-> Undef]>>
       /\ stack = <<>>

(* -------------------------------- C9 ----------------------------------- *)

\* C9: two consecutive message turns that are not cancels, each taken with
\* no flow active, the first with Profile.name set, send the same single
\* message, and the profile after them is the profile before them.
C9_GreetingIdempotent ==
    (IsPlainTurn(Prev) /\ Idle(Prev) /\ Prev.preProfile.name # Undef
        /\ IsPlainTurn(Last) /\ Idle(Last))
    => /\ Len(Prev.sent) = 1
       /\ Last.sent = Prev.sent
       /\ Last.preProfile = Prev.preProfile
       /\ profile = Prev.preProfile

\* two greetings of a profile with name and age
C9_Witness ==
    /\ IsPlainTurn(Prev) /\ Idle(Prev) /\ IsPlainTurn(Last) /\ Idle(Last)
    /\ Prev.preProfile = [name |-> Str(T_Ada), age |-> Num(1)]
    /\ Prev.begun = <<HELLO_USER>> /\ Last.begun = <<HELLO_USER>>
    /\ Last.sent = <<MsgNameAge(T_Ada, NumberToString(1))>>

(* -------------------------------- C10 ---------------------------------- *)

\* C10: Profile.age is present only if Profile.name is present.
C10_AgeOnlyWithName == profile.age # Undef => profile.name # Undef

\* an age stored, and a cancel turn after it
C10_Witness ==
    /\ profile.age = Num(0)
    /\ profile.name # Undef
    /\ IsCancelTurn(Last)

(* -------------------------------- C11 ---------------------------------- *)

IsTurn(r) == r.activity.type # "none"

\* C11: every turn ends by saving the user state and then the
\* conversation state, each once, after everything the turn has sent.
C11_SavesEveryTurn ==
    IsTurn(Last)
    => Last.saves = <<[store |-> "userState", sent |-> Len(Last.sent)],
                      [store |-> "conversationState", sent |-> Len(Last.sent)]>>

(* -------------------------------- C12 ---------------------------------- *)

IsMemberAdded(r) ==
    r.activity.type = "conversationUpdate" /\ r.activity.member # NoMembersAdded

\* C12: a turn for a member added to the conversation sends, when the
\* member is not the bot, the one message made of the three description
\* sentences joined with single spaces, and when it is the bot nothing;
\* either way it runs no step, begins no flow, and leaves the profile and
\* the dialog stack as they were.
C12_MemberAdded ==
    IsMemberAdded(Last)
    => /\ Last.sent =
            IF Last.activity.member # "Bot"
            THEN <<Msg("I am a bot that demonstrates the TextPrompt and NumberPrompt classes to collect your name and age, then store those values in UserState for later use. Say anything to continue.")>>
            ELSE <<>>
       /\ Last.steps = <<>>
       /\ Last.begun = <<>>
       /\ profile = Last.preProfile
       /\ stack = Last.preStack

\* a user joins while the age-choice prompt is pending
C12_Witness ==
    /\ IsMemberAdded(Last)
    /\ Last.activity.member = "User"
    /\ PendingPrompt(Last) = CONFIRM_PROMPT
    /\ Len(Last.sent) = 1
    /\ stack = Last.preStack

(* -------------------------------- C13 ---------------------------------- *)

OnboardingOrder ==
    <<"promptForName", "confirmAgePrompt", "promptForAge", "captureAge">>

StepNames(r) == [i \in 1..Len(r.steps) |-> r.steps[i].step]

\* the turn resumed or began a run of who_are_you
InOnboarding(r) ==
    \/ r.preStack # <<>> /\ r.preStack[1].id = WHO_ARE_YOU
    \/ r.begun = <<WHO_ARE_YOU>>

\* the number of steps of the run completed or pending before the turn
StepsBefore(r) == IF Idle(r) THEN 0 ELSE r.preStack[1].stepIndex + 1

\* C13: the steps a turn runs of who_are_you are the next steps of the
\* order promptForName, confirmAgePrompt, promptForAge, captureAge, from
\* where the run stood, none twice and none skipped; the run is then
\* suspended at the last step run, or over because captureAge ran, or
\* over because the turn was a cancel.
C13_StepsInOrder ==
    /\ InOnboarding(Last)
       => LET from == StepsBefore(Last)
              k == Len(Last.steps)
          IN /\ from + k <= 4
             /\ StepNames(Last) = SubSeq(OnboardingOrder, from + 1, from + k)
             /\ IF stack = <<>>
                THEN \/ from + k = 4
                     \/ IsCancelTurn(Last) /\ k = 0
                ELSE /\ stack[1].id = WHO_ARE_YOU
                     /\ stack[1].stepIndex = from + k - 1
                     /\ from + k < 4
    /\ ~ InOnboarding(Last)
       => \A i \in 1..Len(Last.steps) : Last.steps[i].step = "displayProfile"

\* a run through all four steps in turns without a cancel
C13_Witness ==
    /\ StepNames(Prev2) = <<"confirmAgePrompt">>
    /\ StepNames(Prev) = <<"promptForAge">>
    /\ StepNames(Last) = <<"captureAge">>
    /\ IsPlainTurn(Prev2) /\ IsPlainTurn(Prev) /\ IsPlainTurn(Last)
    /\ stack = <<>>

(* -------------------------------- C14 ---------------------------------- *)

Flows(st) == {i \in 1..Len(st) : st[i].id \in {WHO_ARE_YOU, HELLO_USER}}

\* C14: the dialog stack never holds more than one flow, and a turn that
\* begins a flow begins exactly one and was taken with no flow active.
C14_OneFlow ==
    /\ Cardinality(Flows(stack)) <= 1
    /\ Last.begun # <<>> => Len(Last.begun) = 1 /\ Idle(Last)

\* a reply to a suspended flow: the flow goes on, none is begun
C14_Witness ==
    /\ IsPlainTurn(Last)
    /\ PendingPrompt(Last) = NAME_PROMPT
    /\ Last.begun = <<>>
    /\ Cardinality(Flows(stack)) = 1

(* -------------------------------- C15 ---------------------------------- *)

\* C15: captureAge is entered only with a number that is not negative or
\* with the sentinel -1, the sentinel only in the turn of a choice other
\* than "yes", and a stored Profile.age is a number that is not negative.
C15_AgeValidated ==
    /\ \A i \in 1..Len(Last.steps) :
         Last.steps[i].step = "captureAge"
         => LET v == Last.steps[i].result
            IN /\ v.t = "number"
               /\ v.n >= 0 \/ v = Num(-1)
               /\ v = Num(-1) => PendingPrompt(Last) = CONFIRM_PROMPT
    /\ profile.age # Undef => profile.age.t = "number" /\ profile.age.n >= 0

(* -------------------------------- C16 ---------------------------------- *)

\* the turn answered the age prompt with the numeral of n
AgeGiven(r, n) ==
    IsMessage(r) /\ PendingPrompt(r) = AGE_PROMPT
    /\ r.activity.text = Str(NumberToString(n))

\* C16: answering the age prompt with an age a >= 0 sends "I will
\* remember that you are {a} years old." and stores the age next to the
\* name, and a next message that is not a cancel is answered with "Your
\* name is {n} and you are {a} years old.".
C16_RoundTrip ==
    \A a \in 0..MaxNum :
      /\ AgeGiven(Last, a)
         => /\ Last.sent = <<MsgRemember(NumberToString(a))>>
            /\ profile = [name |-> Last.preProfile.name, age |-> Num(a)]
            /\ profile.name.t = "string"
            /\ stack = <<>>
      /\ (AgeGiven(Prev, a) /\ IsPlainTurn(Last))
         => /\ Last.sent = <<MsgNameAge(Prev.preProfile.name.s,
                                        NumberToString(a))>>
            /\ profile = [name |-> Prev.preProfile.name, age |-> Num(a)]

(* -------------------------------- C17 ---------------------------------- *)

PromptQuestions ==
    {"What is your name, human?", "Do you want to give your age?",
     "What is your age?",
     "Sorry, please specify your age as a positive number or say cancel."}

\* the question of the prompt a step issues, "" when it issues none
QuestionOf(st) ==
    CASE st.step = "promptForName" -> "What is your name, human?"
      [] st.step = "confirmAgePrompt" -> "Do you want to give your age?"
      [] st.step = "promptForAge" /\ st.result = Choice(T_yes, 0)
           -> "What is your age?"
      [] OTHER -> ""

EndsFlow(st) == st.step \in {"captureAge", "displayProfile"}

\* C17: a turn sends at most one prompt; a step that issues a prompt is
\* the last step of its turn, its question the last message, and the
\* flow is then suspended at a prompt; a step that ends a flow is the
\* last step of its turn as well, and no flow is begun after it: the
\* turn of captureAge begins none, the turn of displayProfile only the
\* hello_user that ran it.
C17_OnePromptPerTurn ==
    /\ Cardinality({i \in 1..Len(Last.sent) :
                        Last.sent[i].fmt \in PromptQuestions}) <= 1
    /\ stack # <<>> => stack[Len(stack)].id \in
                           {NAME_PROMPT, CONFIRM_PROMPT, AGE_PROMPT}
    /\ \A i \in 1..Len(Last.steps) :
         LET st == Last.steps[i]
         IN /\ QuestionOf(st) # ""
               => /\ i = Len(Last.steps)
                  /\ Last.sent[Len(Last.sent)] = Msg(QuestionOf(st))
                  /\ stack # <<>>
            /\ EndsFlow(st)
               => /\ i = Len(Last.steps)
                  /\ stack = <<>>
                  /\ Last.begun = IF st.step = "captureAge" THEN <<>>
                                  ELSE <<HELLO_USER>>

\* the age prompt issued in one turn, the flow ended in the next
C17_Witness ==
    /\ StepNames(Prev) = <<"promptForAge">>
    /\ Prev.sent = <<Msg("What is your age?")>>
    /\ Last.steps = <<[step |-> "captureAge", result |-> Num(1)]>>
    /\ Last.begun = <<>>
    /\ stack = <<>>

(* -------------------------------- C19 ---------------------------------- *)

CancelledAfterName(r) ==
    IsCancelTurn(r) /\ PendingPrompt(r) \in {CONFIRM_PROMPT, AGE_PROMPT}

\* C19: a cancel turn leaves the profile as it was; when it cancels
\* who_are_you at the age-choice or the age prompt, the name is stored
\* without an age, and a next message that is not a cancel begins
\* hello_user, which sends "Your name is {name} and you did not share
\* your age.".
C19_CancelKeepsProfile ==
    /\ IsCancelTurn(Last) => profile = Last.preProfile
    /\ CancelledAfterName(Last)
       => profile.name.t = "string" /\ profile.age = Undef
    /\ (CancelledAfterName(Prev) /\ IsPlainTurn(Last))
       => /\ Last.begun = <<HELLO_USER>>
          /\ Last.sent = <<MsgNameOnly(Prev.preProfile.name.s)>>
          /\ profile = Prev.preProfile

\* cancelled at the age prompt, then greeted by name
C19_Witness ==
    /\ IsCancelTurn(Prev) /\ PendingPrompt(Prev) = AGE_PROMPT
    /\ IsPlainTurn(Last)
    /\ Last.sent = <<MsgNameOnly(T_Ada)>>

(* -------------------------------- C20 ---------------------------------- *)

\* C20: no turn changes or removes a Profile.name that is set, nor a
\* Profile.age that is set.
C20_WriteOnce ==
    [][/\ profile.name # Undef => profile'.name = profile.name
       /\ profile.age # Undef => profile'.age = profile.age]_vars

\* name and age stored, and message turns taken since
C20_Witness ==
    /\ profile = [name |-> Str(T_Ada), age |-> Num(1)]
    /\ Prev.preProfile = profile
    /\ IsPlainTurn(Prev) /\ IsCancelTurn(Last)

(* -------------------------------- C18 ---------------------------------- *)

\* the replies that complete the prompt id: a text, a choice, a number
\* that is not negative; none of them a cancel
AcceptableReplies(id) ==
    CASE id = NAME_PROMPT -> {Str(t) : t \in Texts \ {T_empty}} \ CancelTexts
      [] id = CONFIRM_PROMPT -> {Str(T_yes), Str(T_no)}
      [] OTHER -> {Str(NumberToString(n)) : n \in 0..MaxNum}

\* the user answers the pending prompt with an acceptable reply
AcceptableReplyTurn ==
    /\ stack # <<>>
    /\ \E a \in MessageActivities :
         /\ a.text \in AcceptableReplies(stack[Len(stack)].id)
         /\ Turn(a)

\* a message that is not a cancel
PlainMessageTurn ==
    \E a \in MessageActivities : a.text \notin CancelTexts /\ Turn(a)

NoCancelNext == PlainMessageTurn \/ ConversationUpdateTurn \/ OtherTurn

\* Weak fairness of AcceptableReplyTurn.  The action is enabled, and
\* changes the stack, exactly when a prompt is pending, so that
\* WF_vars(AcceptableReplyTurn) is the formula below.
ReplyFairness ==
    []<>(stack = <<>>) \/ []<><<AcceptableReplyTurn>>_vars

\* the turns of a user who never sends cancel and who, while a prompt is
\* pending, eventually answers it with an acceptable reply
LiveSpec == Init /\ [][NoCancelNext]_vars /\ ReplyFairness

OnboardingActive == stack # <<>> /\ stack[1].id = WHO_ARE_YOU

OnboardingEnded ==
    /\ stack = <<>>
    /\ Last.steps # <<>>
    /\ Last.steps[Len(Last.steps)].step = "captureAge"

\* C18: a run of who_are_you whose prompts are eventually answered, and
\* which is not cancelled, reaches captureAge, which ends the flow and
\* leaves the dialog stack empty.
C18_OnboardingTerminates == OnboardingActive ~> OnboardingEnded

\* captureAge has ended the flow on the age branch
C18_Witness ==
    /\ OnboardingEnded
    /\ Last.steps[Len(Last.steps)].result = Num(1)
    /\ profile.age = Num(1)

=============================================================================
